---- MODULE Spec2Model ----
(***************************************************************************)
(* DataLoader of deid2_dpsyn (src/data/DataLoader.py): the attribute       *)
(* encoding pipeline (binning, grouping, identifier and determined         *)
(* attribute removal, remainder encoding), the marginal generation engine  *)
(* and the two pickle caches.                                              *)
(*                                                                         *)
(* Python values are modelled boxed, so that values of different kinds can *)
(* be compared: a scalar x is <<x>>, a tuple (a, b) is <<a, b>>, NaN is    *)
(* <<>>.  A code (a dict value, a marginal index) is a plain integer.      *)
(* A DataFrame is [none, columns, rows]: columns is the ordered column     *)
(* list, rows a sequence of functions from column name to boxed cell.      *)
(* A dict is a function; dicts whose order the code reads are sequences.   *)
(***************************************************************************)
EXTENDS Integers, Sequences, FiniteSets, TLC

VARIABLES
  config_file,     \* data.yaml together with the schema of parameters.json
  csv_files,       \* [pub, priv]: the raw tables of DATA_DIRECTORY
  pickle_files,    \* PICKLE_DIRECTORY: file name |-> pickled object
  public_data,     \* self.public_data
  private_data,    \* self.private_data
  all_attrs,       \* self.all_attrs
  encode_mapping,  \* self.encode_mapping
  decode_mapping,  \* self.decode_mapping
  pub_marginals,   \* self.pub_marginals
  encode_schema,   \* self.encode_schema
  general_schema,  \* self.general_schema
  config,          \* self.config: <<>> (None) or <<the loaded config>>
  ret              \* outcome of the last call on the loader

vars == <<config_file, csv_files, pickle_files, public_data, private_data,
          all_attrs, encode_mapping, decode_mapping, pub_marginals,
          encode_schema, general_schema, config, ret>>

----------------------------------------------------------------------------
(* Python and pandas values *)

NaN == <<>>
V(x) == <<x>>
IsNaN(c) == c = NaN

None == [none |-> TRUE, columns |-> <<>>, rows |-> <<>>]
DataFrame(cols, rws) == [none |-> FALSE, columns |-> cols, rows |-> rws]

EmptyDict == [k \in {} |-> 0]

Range(s) == {s[i] : i \in 1..Len(s)}

SetMax(S) == CHOOSE m \in S : \A k \in S : k <= m

\* d[k] = v on a dict
DictSet(d, k, v) == [x \in DOMAIN d \cup {k} |-> IF x = k THEN v ELSE d[x]]

\* sorted(list of distinct integers)
RECURSIVE SortedSeq(_)
SortedSeq(S) ==
  IF S = {} THEN <<>>
  ELSE LET m == CHOOSE x \in S : \A y \in S : x <= y
       IN <<m>> \o SortedSeq(S \ {m})

\* {v: i for i, v in enumerate(seq)}: a repeated value keeps its last index
EnumDict(seq) ==
  [v \in Range(seq) |-> SetMax({i \in 1..Len(seq) : seq[i] = v}) - 1]

\* Series.map(dict): a value that is no key of the dict becomes NaN
MapCell(c, d) == IF c \in DOMAIN d THEN V(d[c]) ELSE NaN

\* data.drop(attr, axis=1)
RECURSIVE SeqWithout(_, _)
SeqWithout(s, a) ==
  IF s = <<>> THEN <<>>
  ELSE IF Head(s) = a THEN SeqWithout(Tail(s), a)
  ELSE <<Head(s)>> \o SeqWithout(Tail(s), a)

Drop(data, a) ==
  DataFrame(SeqWithout(data.columns, a),
            [k \in 1..Len(data.rows) |->
               [c \in DOMAIN data.rows[k] \ {a} |-> data.rows[k][c]]])

\* data[attr] = column: replaces the column in place, or appends a new one
Assign(data, a, col) ==
  DataFrame(IF a \in Range(data.columns) THEN data.columns
            ELSE Append(data.columns, a),
            [k \in 1..Len(data.rows) |->
               [c \in DOMAIN data.rows[k] \cup {a} |->
                  IF c = a THEN col[k] ELSE data.rows[k][c]]])

----------------------------------------------------------------------------
(* binning_attributes *)

\* an edge of np.r_[-np.inf, ..., np.inf]
NegInf == [inf |-> -1, x |-> 0]
PosInf == [inf |-> 1, x |-> 0]
Edge(v) == [inf |-> 0, x |-> v]

EdgeLess(a, b) ==
  \/ a.inf < b.inf
  \/ a.inf = 0 /\ b.inf = 0 /\ a.x < b.x

\* mutant of Arange: the stop value is an edge too when a step lands on it
Arange_Inclusive(s, t, step) ==
  LET n == IF t >= s THEN (t - s) \div step + 1 ELSE 0
  IN [i \in 1..n |-> s + (i - 1) * step]

\* np.arange(s, t, step) on integers with step > 0
Arange(s, t, step) ==
  LET n == IF t > s THEN (t - s + step - 1) \div step ELSE 0
  IN [i \in 1..n |-> s + (i - 1) * step]

Bins(spec_list) ==
  LET inner == Arange(spec_list[1], spec_list[2], spec_list[3])
  IN <<NegInf>> \o [i \in 1..Len(inner) |-> Edge(inner[i])] \o <<PosInf>>

\* pd.cut(x, bins).cat.codes: the intervals are (bins[i], bins[i+1]], closed
\* on the right (pd.cut's default right=True); a missing value has code -1
CutCode(c, bins) ==
  IF IsNaN(c) THEN -1
  ELSE CHOOSE i \in 0..(Len(bins) - 2) :
         /\ EdgeLess(bins[i + 1], Edge(c[1]))
         /\ ~EdgeLess(bins[i + 2], Edge(c[1]))

\* {(bins[i], bins[i + 1]): i for i in range(len(bins) - 1)}
IntervalDict(bins) ==
  [iv \in {<<bins[i], bins[i + 1]>> : i \in 1..(Len(bins) - 1)} |->
     (CHOOSE i \in 1..(Len(bins) - 1) : iv = <<bins[i], bins[i + 1]>>) - 1]

\* [i for i in range(len(bins) - 1)]
CodeList(bins) == [i \in 1..(Len(bins) - 1) |-> V(i - 1)]

\* the pipeline state: the table and the two shared map collections
Stage(data, enc, dec) == [data |-> data, enc |-> enc, dec |-> dec]

BinOne(st, attr, spec_list) ==
  LET bins == Bins(spec_list)
  IN Stage(Assign(st.data, attr,
                  [k \in 1..Len(st.data.rows) |->
                     V(CutCode(st.data.rows[k][attr], bins))]),
           DictSet(st.enc, attr, IntervalDict(bins)),
           DictSet(st.dec, attr, CodeList(bins)))

RECURSIVE binning_attributes(_, _)
binning_attributes(binning_info, st) ==
  IF binning_info = <<>> THEN st
  ELSE binning_attributes(Tail(binning_info),
         BinOne(st, Head(binning_info).attr, Head(binning_info).spec_list))

----------------------------------------------------------------------------
(* grouping_attributes *)

\* data[attributes].apply(tuple, axis=1) on one row
RECURSIVE RowTuple(_, _)
RowTuple(row, attributes) ==
  IF attributes = <<>> THEN <<>>
  ELSE row[Head(attributes)] \o RowTuple(row, Tail(attributes))

RECURSIVE DropAll(_, _)
DropAll(data, attributes) ==
  IF attributes = <<>> THEN data
  ELSE DropAll(Drop(data, Head(attributes)), Tail(attributes))

GroupOne(st, grouping) ==
  LET new_attr == grouping.grouped_name
      encoding == EnumDict(grouping.combinations)
      grouped  == Assign(st.data, new_attr,
                    [k \in 1..Len(st.data.rows) |->
                       MapCell(RowTuple(st.data.rows[k], grouping.attributes),
                               encoding)])
  IN Stage(DropAll(grouped, grouping.attributes),
           DictSet(st.enc, new_attr, encoding),
           DictSet(st.dec, new_attr, grouping.combinations))

RECURSIVE grouping_attributes(_, _)
grouping_attributes(grouping_info, st) ==
  IF grouping_info = <<>> THEN st
  ELSE grouping_attributes(Tail(grouping_info), GroupOne(st, Head(grouping_info)))

----------------------------------------------------------------------------
(* remove_identifier, remove_determined_attributes, encode_remain *)

remove_identifier(cfg, st) ==
  Stage(Drop(st.data, cfg.identifier), st.enc, st.dec)

remove_determined_attributes(determined_info, st) ==
  Stage(DropAll(st.data, determined_info), st.enc, st.dec)

EncodedAttr(cfg) ==
  {cfg.numerical_binning[i].attr : i \in 1..Len(cfg.numerical_binning)}
    \cup {cfg.grouping_attributes[i].grouped_name :
            i \in 1..Len(cfg.grouping_attributes)}

RemainOne(st, attr, schema) ==
  LET mapping  == schema[attr]
      encoding == EnumDict(mapping)
  IN Stage(Assign(st.data, attr,
                  [k \in 1..Len(st.data.rows) |->
                     MapCell(st.data.rows[k][attr], encoding)]),
           DictSet(st.enc, attr, encoding),
           DictSet(st.dec, attr, mapping))

RECURSIVE RemainLoop(_, _, _, _)
RemainLoop(columns, schema, cfg, st) ==
  IF columns = <<>> THEN st
  ELSE LET attr == Head(columns)
       IN IF attr = cfg.identifier \/ attr \in EncodedAttr(cfg)
          THEN RemainLoop(Tail(columns), schema, cfg, st)
          ELSE RemainLoop(Tail(columns), schema, cfg, RemainOne(st, attr, schema))

encode_remain(schema, cfg, st) == RemainLoop(st.data.columns, schema, cfg, st)

\* the five stages of load_data, in the order load_data runs them
Preprocess(cfg, schema, raw, enc, dec) ==
  encode_remain(schema, cfg,
    remove_determined_attributes(cfg.determined_attributes,
      remove_identifier(cfg,
        grouping_attributes(cfg.grouping_attributes,
          binning_attributes(cfg.numerical_binning, Stage(raw, enc, dec))))))

\* sorted(encode_mapping, key=encode_mapping.get)
KeysByCode(d) ==
  LET codes == SortedSeq({d[k] : k \in DOMAIN d})
  IN [i \in 1..Len(codes) |-> CHOOSE k \in DOMAIN d : d[k] = codes[i]]

\* for attr, m in self.encode_mapping.items(): self.decode_mapping[attr] = ...
DecodeFromEncode(enc, dec) ==
  [a \in DOMAIN dec \cup DOMAIN enc |->
     IF a \in DOMAIN enc THEN KeysByCode(enc[a]) ELSE dec[a]]

\* for attr, m in self.encode_mapping.items(): self.encode_schema[attr] = sorted(m.values())
SchemaFromEncode(enc, sch) ==
  [a \in DOMAIN sch \cup DOMAIN enc |->
     IF a \in DOMAIN enc THEN SortedSeq({enc[a][k] : k \in DOMAIN enc[a]})
     ELSE sch[a]]

----------------------------------------------------------------------------
(* the marginal generation engine *)

\* the rows whose cell of attr holds code c
RowsWith(records, attr, c) ==
  {k \in 1..Len(records.rows) : records.rows[k][attr] = V(c)}

\* records.assign(n=1).pivot_table(values='n', index=attr, aggfunc=np.sum):
\* one count per observed code; rows whose key is NaN are left out
PivotOne(records, attr) ==
  LET observed == {records.rows[k][attr][1] :
                     k \in {j \in 1..Len(records.rows) :
                              ~IsNaN(records.rows[j][attr])}}
  IN [c \in observed |-> Cardinality(RowsWith(records, attr, c))]

\* pivot_table(index=a, columns=b): rows with a NaN key are left out
PivotTwo(records, a, b) ==
  LET kept == {k \in 1..Len(records.rows) :
                 ~IsNaN(records.rows[k][a]) /\ ~IsNaN(records.rows[k][b])}
      rowcodes == {records.rows[k][a][1] : k \in kept}
      colcodes == {records.rows[k][b][1] : k \in kept}
  IN [p \in rowcodes \X colcodes |->
        Cardinality({k \in kept : /\ records.rows[k][a] = V(p[1])
                                  /\ records.rows[k][b] = V(p[2])})]

\* sorted([i for i in self.encode_mapping[attr].values()])
Indices(enc, attr) == SortedSeq({enc[attr][k] : k \in DOMAIN enc[attr]})

\* mutant of ReindexOne: the pivot table is returned without the reindex, so
\* only the observed codes have an entry
ReindexOne_NoReindex(pivot, indices) == pivot

\* marginal.reindex(index=indices).fillna(0).astype(np.int32)
ReindexOne(pivot, indices) ==
  [i \in Range(indices) |-> IF i \in DOMAIN pivot THEN pivot[i] ELSE 0]

ReindexTwo(pivot, indices, columns) ==
  [p \in Range(indices) \X Range(columns) |->
     IF p \in DOMAIN pivot THEN pivot[p] ELSE 0]

generate_one_way_marginal(enc, records, index_attribute) ==
  LET indices == Indices(enc, index_attribute)
  IN [index |-> indices, columns |-> <<>>,
      n |-> ReindexOne(PivotOne(records, index_attribute), indices)]

generate_two_way_marginal(enc, records, index_attribute, column_attribute) ==
  LET indices == Indices(enc, index_attribute)
      columns == Indices(enc, column_attribute)
  IN [index |-> indices, columns |-> columns,
      n |-> ReindexTwo(PivotTwo(records, index_attribute, column_attribute),
                       indices, columns)]

\* the attribute is a column of records and has an encode map (else KeyError)
CanTabulate(enc, records, attr) ==
  attr \in Range(records.columns) /\ attr \in DOMAIN enc

\* mutant of Excluded: only PUMA is skipped
Excluded_PumaOnly(attr) == attr = "PUMA"

Excluded(attr) == attr = "PUMA" \/ attr = "YEAR"

\* obtain_attrs: [exc, all_attrs]
obtain_attrs(attrs, pub, identifier) ==
  IF attrs # <<>> THEN [exc |-> "", all_attrs |-> attrs]
  ELSE IF pub.none THEN [exc |-> "AttributeError", all_attrs |-> attrs]
  ELSE [exc |-> "", all_attrs |-> SeqWithout(pub.columns, identifier)]

\* generate_all_one_way_marginals_except_PUMA_YEAR over the attribute list
AllOneWay(enc, records, attrs) ==
  LET used == {a \in Range(attrs) : ~Excluded(a)}
  IN IF \E a \in used : ~CanTabulate(enc, records, a)
     THEN [exc |-> "KeyError", marginals |-> EmptyDict]
     ELSE [exc |-> "",
           marginals |-> [fs \in {{a} : a \in used} |->
              generate_one_way_marginal(enc, records, CHOOSE a \in fs : TRUE)]]

\* generate_all_two_way_marginals_except_PUMA_YEAR over the attribute list
AllTwoWay(enc, records, attrs) ==
  LET pairs == {p \in (1..Len(attrs)) \X (1..Len(attrs)) :
                  /\ p[1] < p[2]
                  /\ ~Excluded(attrs[p[1]])
                  /\ ~Excluded(attrs[p[2]])}
  IN IF \E p \in pairs : \/ ~CanTabulate(enc, records, attrs[p[1]])
                         \/ ~CanTabulate(enc, records, attrs[p[2]])
     THEN [exc |-> "KeyError", marginals |-> EmptyDict]
     ELSE [exc |-> "",
           marginals |->
             [fs \in {{attrs[p[1]], attrs[p[2]]} : p \in pairs} |->
                LET p == CHOOSE q \in pairs : fs = {attrs[q[1]], attrs[q[2]]}
                IN generate_two_way_marginal(enc, records,
                                             attrs[p[1]], attrs[p[2]])]]

\* the body of the loop of generate_marginal_by_config for one entry:
\* [exc, marginals, all_attrs]
ConfigEntry(enc, pub, identifier, records, attrs, entry) ==
  IF entry.key \in {"priv_all_one_way", "priv_all_two_way"}
  THEN LET got == obtain_attrs(attrs, pub, identifier)
           all == IF got.exc # "" THEN [exc |-> got.exc, marginals |-> EmptyDict]
                  ELSE IF entry.key = "priv_all_one_way"
                  THEN AllOneWay(enc, records, got.all_attrs)
                  ELSE AllTwoWay(enc, records, got.all_attrs)
       IN [exc |-> all.exc, marginals |-> all.marginals,
           all_attrs |-> got.all_attrs]
  ELSE LET a == entry.attributes
       IN IF Len(a) = 1
          THEN IF ~CanTabulate(enc, records, a[1])
               THEN [exc |-> "KeyError", marginals |-> EmptyDict,
                     all_attrs |-> attrs]
               ELSE [exc |-> "", all_attrs |-> attrs,
                     marginals |-> (Range(a) :>
                        generate_one_way_marginal(enc, records, a[1]))]
          ELSE IF Len(a) = 2
          THEN IF ~CanTabulate(enc, records, a[1])
                  \/ ~CanTabulate(enc, records, a[2])
               THEN [exc |-> "KeyError", marginals |-> EmptyDict,
                     all_attrs |-> attrs]
               ELSE [exc |-> "", all_attrs |-> attrs,
                     marginals |-> (Range(a) :>
                        generate_two_way_marginal(enc, records, a[1], a[2]))]
          ELSE [exc |-> "NotImplementedError", marginals |-> EmptyDict,
                all_attrs |-> attrs]

\* generate_marginal_by_config: the loop over config.items();
\* acc is [exc, marginal_sets, epss, all_attrs]
RECURSIVE ConfigLoop(_, _, _, _, _, _)
ConfigLoop(enc, pub, identifier, records, request, acc) ==
  IF request = <<>> \/ acc.exc # "" THEN acc
  ELSE LET entry == Head(request)
           one == ConfigEntry(enc, pub, identifier, records, acc.all_attrs, entry)
       IN ConfigLoop(enc, pub, identifier, records, Tail(request),
            IF one.exc # ""
            THEN [acc EXCEPT !.exc = one.exc, !.all_attrs = one.all_attrs]
            ELSE [exc |-> "",
                  marginal_sets |-> DictSet(acc.marginal_sets, entry.key, one.marginals),
                  epss |-> DictSet(acc.epss, entry.key, entry.total_eps),
                  all_attrs |-> one.all_attrs])

generate_marginal_by_config(enc, pub, identifier, records, attrs, request) ==
  ConfigLoop(enc, pub, identifier, records, request,
             [exc |-> "", marginal_sets |-> EmptyDict, epss |-> EmptyDict,
              all_attrs |-> attrs])

\* generate_all_pub_marginals, the tabulation on a cache miss: every one-way
\* and every two-way marginal of the public table, merged into pub_marginals
AllPubMarginals(enc, pub, attrs, old) ==
  LET pairs == {p \in (1..Len(attrs)) \X (1..Len(attrs)) : p[1] < p[2]}
      one == [fs \in {{a} : a \in Range(attrs)} |->
                generate_one_way_marginal(enc, pub, CHOOSE a \in fs : TRUE)]
      two == [fs \in {{attrs[p[1]], attrs[p[2]]} : p \in pairs} |->
                LET p == CHOOSE q \in pairs : fs = {attrs[q[1]], attrs[q[2]]}
                IN generate_two_way_marginal(enc, pub, attrs[p[1]], attrs[p[2]])]
  IN [fs \in DOMAIN old \cup DOMAIN one \cup DOMAIN two |->
        IF fs \in DOMAIN two THEN two[fs]
        ELSE IF fs \in DOMAIN one THEN one[fs] ELSE old[fs]]

\* [exc, path, pub_marginals, store]: store says whether the pickle is written
generate_all_pub_marginals(files, name, enc, pub, identifier, old) ==
  IF name \in DOMAIN files
  THEN [exc |-> "", path |-> "hit", pub_marginals |-> files[name], store |-> FALSE]
  ELSE IF pub.none
  THEN [exc |-> "AttributeError", path |-> "miss", pub_marginals |-> old,
        store |-> FALSE]
  ELSE IF identifier \notin Range(pub.columns)
  THEN \* all_attrs.remove(config['identifier']) on a list that does not hold it
       [exc |-> "ValueError", path |-> "miss", pub_marginals |-> old,
        store |-> FALSE]
  ELSE LET attrs == SeqWithout(pub.columns, identifier)
       IN IF \E a \in Range(attrs) : ~CanTabulate(enc, pub, a)
          THEN [exc |-> "KeyError", path |-> "miss", pub_marginals |-> old,
                store |-> FALSE]
          ELSE [exc |-> "", path |-> "miss",
                pub_marginals |-> AllPubMarginals(enc, pub, attrs, old),
                store |-> TRUE]

----------------------------------------------------------------------------
(* load_data *)

PubPickle(cfg) == <<"preprocessed_pub", cfg.pub_dataset_path>>
PrivPickle(cfg) == <<"preprocessed_priv", cfg.priv_dataset_path>>
MargPickle(cfg) == <<"pub_all_marginals", cfg.pub_dataset_path>>

\* the public branch: [path, data, enc, dec, files]
LoadPublic(cfg, csv, files, pub, enc, dec, pub_only, pub_ref) ==
  IF ~pub_ref
  THEN [path |-> "none", data |-> pub, enc |-> enc, dec |-> dec, files |-> files]
  ELSE IF PubPickle(cfg) \in DOMAIN files
  THEN LET got == files[PubPickle(cfg)]
       IN [path |-> "hit", data |-> got.data, enc |-> got.enc,
           dec |-> IF pub_only THEN DecodeFromEncode(got.enc, dec) ELSE dec,
           files |-> files]
  ELSE LET st == Preprocess(cfg, cfg.schema, csv[cfg.pub_dataset_path], enc, dec)
       IN [path |-> "miss", data |-> st.data, enc |-> st.enc, dec |-> st.dec,
           files |-> DictSet(files, PubPickle(cfg),
                             [data |-> st.data, enc |-> st.enc])]

\* the private branch: [path, data, enc, dec, files]
LoadPrivate(cfg, csv, files, priv, enc, dec, pub_only) ==
  IF PrivPickle(cfg) \in DOMAIN files /\ ~pub_only
  THEN LET got == files[PrivPickle(cfg)]
       IN [path |-> "hit", data |-> got.data, enc |-> got.enc,
           dec |-> DecodeFromEncode(got.enc, dec), files |-> files]
  ELSE IF ~pub_only
  THEN LET st == Preprocess(cfg, cfg.schema, csv[cfg.priv_dataset_path], enc, dec)
       IN [path |-> "miss", data |-> st.data, enc |-> st.enc, dec |-> st.dec,
           files |-> DictSet(files, PrivPickle(cfg),
                             [data |-> st.data, enc |-> st.enc])]
  ELSE [path |-> "none", data |-> priv, enc |-> enc, dec |-> dec, files |-> files]

\* what a call leaves in ret: its arguments, the exception raised ("" when it returned), the
\* returned value (<<>> for none) and the cache branches it took
Outcome(op, args, exc, value, pub_path, priv_path, marg_path) ==
  [op |-> op, args |-> args, exc |-> exc, value |-> value,
   path |-> [pub |-> pub_path, priv |-> priv_path, marg |-> marg_path]]

\* mutant of ConfigReturn: the loop stops at the failing entry and what was
\* tabulated so far is handed back
ConfigReturn_Partial(acc) ==
  <<[marginal_sets |-> acc.marginal_sets, epss |-> acc.epss]>>

\* what generate_marginal_by_config hands back: nothing when it raised
ConfigReturn(acc) ==
  IF acc.exc # "" THEN <<>>
  ELSE <<[marginal_sets |-> acc.marginal_sets, epss |-> acc.epss]>>

----------------------------------------------------------------------------
(* the inputs: config, raw tables, marginal requests *)

MaxRows == 2
MaxEntries == 2

RawColumns == <<"ID", "AGE", "SEX", "AGEGRP", "PUMA", "YEAR">>

RawRow(age, agegrp, puma) ==
  [ID |-> V(7), AGE |-> age, SEX |-> V(1), AGEGRP |-> V(agegrp),
   PUMA |-> V(puma), YEAR |-> V(2012)]

\* a missing AGE, an AGEGRP outside the declared combinations and a PUMA
\* outside the declared domain all occur
RawRows ==
  {RawRow(age, agegrp, puma) :
     age \in {NaN, V(15)}, agegrp \in {1, 2}, puma \in {"a", "z"}}

Tables(columns, rows, n) ==
  {DataFrame(columns, r) : r \in UNION {[1..k -> rows] : k \in 1..n}}

OneRowTables == {DataFrame(RawColumns, <<r>>) : r \in RawRows}

PubTable ==
  DataFrame(RawColumns, <<RawRow(V(15), 1, "a"), RawRow(V(0), 0, "b")>>)

Combinations == <<<<0, 0>>, <<0, 1>>, <<1, 0>>, <<1, 1>>>>

Config(binning, grouping, determined, schema) ==
  [pub_dataset_path |-> "pub", priv_dataset_path |-> "priv",
   identifier |-> "ID",
   numerical_binning |-> binning,
   grouping_attributes |-> grouping,
   determined_attributes |-> determined,
   schema |-> schema]

\* every config names columns of the raw tables and declares a domain for each
\* column that reaches encode_remain; a declared list may repeat a value
Configs ==
  {Config(<<[attr |-> "AGE", spec_list |-> <<0, 20, 10>>]>>,
          <<[attributes |-> <<"SEX", "AGEGRP">>, grouped_name |-> "DEMO",
             combinations |-> Combinations]>>,
          det,
          [PUMA |-> pv, YEAR |-> <<V(2012), V(2013)>>]) :
     det \in {<<>>, <<"YEAR">>},
     pv \in {<<V("a"), V("b")>>, <<V("a"), V("b"), V("a")>>}}

Entry(key, attributes, total_eps) ==
  [key |-> key, attributes |-> attributes, total_eps |-> total_eps]

Entries ==
  {Entry("priv_all_one_way", <<>>, 1), Entry("priv_all_two_way", <<>>, 2),
   Entry("demo_puma", <<"DEMO", "PUMA">>, 3),
   Entry("three", <<"AGE", "DEMO", "PUMA">>, 4)}

\* a request is a dict: its keys are distinct
Requests ==
  {r \in UNION {[1..k -> Entries] : k \in 1..MaxEntries} :
     \A i, j \in 1..Len(r) : i # j => r[i].key # r[j].key}

\* one explicit entry over one or two encoded attributes
ExplicitRequests ==
  {<<Entry("one", <<a>>, 1)>> : a \in {"AGE", "DEMO", "PUMA"}}
    \cup {<<Entry("two", p, 1)>> :
            p \in {<<"AGE", "DEMO">>, <<"AGE", "PUMA">>, <<"PUMA", "DEMO">>}}

\* a marginal pickle left in PICKLE_DIRECTORY before the first run
OldMarginals(cfg, csv) ==
  LET st == Preprocess(cfg, cfg.schema, csv[cfg.pub_dataset_path],
                       EmptyDict, EmptyDict)
  IN AllPubMarginals(st.enc, st.data, st.data.columns, EmptyDict)

----------------------------------------------------------------------------
(* the loader *)

Idle == Outcome("idle", <<>>, "", <<>>, "none", "none", "none")

\* DataLoader.__init__
Fresh ==
  /\ public_data = None
  /\ private_data = None
  /\ all_attrs = <<>>
  /\ encode_mapping = EmptyDict
  /\ decode_mapping = EmptyDict
  /\ pub_marginals = EmptyDict
  /\ encode_schema = EmptyDict
  /\ general_schema = EmptyDict
  /\ config = <<>>
  /\ ret = Idle

Init ==
  /\ config_file \in Configs
  /\ \E t \in OneRowTables : csv_files = [pub |-> PubTable, priv |-> t]
  /\ \/ pickle_files = EmptyDict
     \/ pickle_files = (MargPickle(config_file) :> OldMarginals(config_file, csv_files))
  /\ Fresh

\* a new run: DataLoader() while the files stay
NewLoader ==
  /\ ret = Idle
  /\ config # <<>>
  /\ public_data' = None
  /\ private_data' = None
  /\ all_attrs' = <<>>
  /\ encode_mapping' = EmptyDict
  /\ decode_mapping' = EmptyDict
  /\ pub_marginals' = EmptyDict
  /\ encode_schema' = EmptyDict
  /\ general_schema' = EmptyDict
  /\ config' = <<>>
  /\ ret' = Idle
  /\ UNCHANGED <<config_file, csv_files, pickle_files>>

LoadData(pub_only, pub_ref) ==
  LET cfg == config_file
      pub == LoadPublic(cfg, csv_files, pickle_files, public_data,
                        encode_mapping, decode_mapping, pub_only, pub_ref)
      priv == LoadPrivate(cfg, csv_files, pub.files, private_data,
                          pub.enc, pub.dec, pub_only)
  IN /\ ret = Idle
     /\ config' = <<cfg>>
     /\ general_schema' = cfg.schema
     /\ public_data' = pub.data
     /\ private_data' = priv.data
     /\ encode_mapping' = priv.enc
     /\ decode_mapping' = priv.dec
     /\ pickle_files' = priv.files
     /\ encode_schema' = SchemaFromEncode(priv.enc, encode_schema)
     /\ ret' = Outcome("load_data", <<pub_only, pub_ref>>, "", <<>>,
                       pub.path, priv.path, "none")
     /\ UNCHANGED <<config_file, csv_files, all_attrs, pub_marginals>>

GenerateAllPubMarginals ==
  LET cfg == config_file
      got == generate_all_pub_marginals(pickle_files, MargPickle(cfg),
               encode_mapping, public_data, cfg.identifier, pub_marginals)
  IN /\ ret = Idle
     /\ pub_marginals' = got.pub_marginals
     /\ pickle_files' = IF got.store
                        THEN DictSet(pickle_files, MargPickle(cfg), got.pub_marginals)
                        ELSE pickle_files
     /\ ret' = Outcome("generate_all_pub_marginals", <<>>, got.exc,
                       IF got.exc = "" THEN <<got.pub_marginals>> ELSE <<>>,
                       "none", "none", got.path)
     /\ UNCHANGED <<config_file, csv_files, public_data, private_data, all_attrs,
                    encode_mapping, decode_mapping, encode_schema,
                    general_schema, config>>

\* generate_marginal_by_config(records, request), records being one of the
\* loader's two tables
GenerateMarginalByConfig(which, request) ==
  LET records == IF which = "public" THEN public_data ELSE private_data
  IN /\ ret = Idle
     /\ ~records.none
     /\ LET acc == generate_marginal_by_config(encode_mapping, public_data,
                     config[1].identifier, records, all_attrs, request)
        IN /\ all_attrs' = acc.all_attrs
           /\ ret' = Outcome("generate_marginal_by_config", <<which, request>>,
                             acc.exc, ConfigReturn(acc), "none", "none", "none")
     /\ UNCHANGED <<config_file, csv_files, pickle_files, public_data,
                    private_data, encode_mapping, decode_mapping, pub_marginals,
                    encode_schema, general_schema, config>>

\* the caller takes the outcome of the call; the loader waits for the next one
Return ==
  /\ ret # Idle
  /\ ret' = Idle
  /\ UNCHANGED <<config_file, csv_files, pickle_files, public_data,
                 private_data, all_attrs, encode_mapping, decode_mapping,
                 pub_marginals, encode_schema, general_schema, config>>

Next ==
  \/ NewLoader
  \/ \E pub_only, pub_ref \in BOOLEAN : LoadData(pub_only, pub_ref)
  \/ GenerateAllPubMarginals
  \/ \E which \in {"public", "private"}, request \in Requests :
       GenerateMarginalByConfig(which, request)
  \/ Return

Spec == Init /\ [][Next]_vars

\* the marginal functions on every table of up to MaxRows rows, as
\* experiment.py reaches them: load_data() with its defaults, then requests
\* on the encoded private table
InitMarg ==
  /\ config_file \in Configs
  /\ \E t \in Tables(RawColumns, RawRows, MaxRows) :
       csv_files = [pub |-> PubTable, priv |-> t]
  /\ pickle_files = EmptyDict
  /\ Fresh

NextMarg ==
  \/ LoadData(FALSE, FALSE)
  \/ \E request \in ExplicitRequests : GenerateMarginalByConfig("private", request)
  \/ Return

SpecMarg == InitMarg /\ [][NextMarg]_vars

\* binning alone: one numeric column under every BinSpec (s, t, step) with
\* s < t and step > 0 within the bounds, and every value around its edges
MaxStart == 1
MaxStop == 5
MaxStep == 3

BinSpecs ==
  {sp \in (-1..MaxStart) \X (0..MaxStop) \X (1..MaxStep) : sp[1] < sp[2]}

BinValues == {NaN} \cup {V(v) : v \in -3..(MaxStop + 2)}

BinTable(v) == DataFrame(<<"ID", "AGE">>, <<[ID |-> V(7), AGE |-> v]>>)

InitBin ==
  /\ \E sp \in BinSpecs :
       config_file = Config(<<[attr |-> "AGE", spec_list |-> sp]>>, <<>>, <<>>,
                            EmptyDict)
  /\ \E v \in BinValues : csv_files = [pub |-> BinTable(v), priv |-> BinTable(v)]
  /\ pickle_files = EmptyDict
  /\ Fresh

NextBin ==
  \/ LoadData(FALSE, FALSE)
  \/ Return

SpecBin == InitBin /\ [][NextBin]_vars

\* the end-to-end scenario of the spec: columns [ID, AGE, SEX], ID the
\* identifier, AGE binned by (0, 90, 10), SEX of domain {M, F}; a table of
\* ScenarioRows rows holding up to two different ages
ScenarioRows == 100

AgeConfig ==
  Config(<<[attr |-> "AGE", spec_list |-> <<0, 90, 10>>]>>, <<>>, <<>>,
         [SEX |-> <<V("M"), V("F")>>])

AgeValues == {NaN, V(0), V(34), V(90)}

AgeRow(age) == [ID |-> V(7), AGE |-> age, SEX |-> V("F")]

AgeTable(v1, v2, n1) ==
  DataFrame(<<"ID", "AGE", "SEX">>,
            [k \in 1..ScenarioRows |-> IF k <= n1 THEN AgeRow(v1) ELSE AgeRow(v2)])

InitAge ==
  /\ config_file = AgeConfig
  /\ \E v1, v2 \in AgeValues, n1 \in 1..ScenarioRows :
       csv_files = [pub |-> AgeTable(v1, v2, n1), priv |-> AgeTable(v1, v2, n1)]
  /\ pickle_files = EmptyDict
  /\ Fresh

NextAge ==
  \/ LoadData(FALSE, FALSE)
  \/ GenerateMarginalByConfig("private", <<Entry("age", <<"AGE">>, 1)>>)
  \/ Return

SpecAge == InitAge /\ [][NextAge]_vars

\* the cache across runs: data.yaml is edited between two runs while the
\* dataset paths, the raw tables and the schema stay; only config directives
\* (the BinSpec of AGE, the determined attributes) differ among these configs
CacheConfigs ==
  {Config(<<[attr |-> "AGE", spec_list |-> sp]>>,
          <<[attributes |-> <<"SEX", "AGEGRP">>, grouped_name |-> "DEMO",
             combinations |-> Combinations]>>,
          det,
          [PUMA |-> <<V("a"), V("b")>>, YEAR |-> <<V(2012), V(2013)>>]) :
     sp \in {<<0, 20, 10>>, <<0, 30, 10>>}, det \in {<<>>, <<"YEAR">>}}

\* the directives the cache key is said to cover
Directives(cfg) ==
  [numerical_binning |-> cfg.numerical_binning,
   grouping_attributes |-> cfg.grouping_attributes,
   identifier |-> cfg.identifier,
   determined_attributes |-> cfg.determined_attributes]

InitCache ==
  /\ config_file \in CacheConfigs
  /\ \E t \in OneRowTables : csv_files = [pub |-> PubTable, priv |-> t]
  /\ pickle_files = EmptyDict
  /\ Fresh

\* data.yaml is rewritten with other directives; load_data reads it anew on
\* every call
EditConfig(cfg) ==
  /\ ret = Idle
  /\ Directives(cfg) # Directives(config_file)
  /\ cfg.pub_dataset_path = config_file.pub_dataset_path
  /\ cfg.priv_dataset_path = config_file.priv_dataset_path
  /\ config_file' = cfg
  /\ UNCHANGED <<csv_files, pickle_files, public_data, private_data, all_attrs,
                 encode_mapping, decode_mapping, pub_marginals, encode_schema,
                 general_schema, config, ret>>

NextCache ==
  \/ NewLoader
  \/ \E cfg \in CacheConfigs : EditConfig(cfg)
  \/ \E pub_ref \in BOOLEAN : LoadData(FALSE, pub_ref)
  \/ Return

SpecCache == InitCache /\ [][NextCache]_vars

----------------------------------------------------------------------------
(* what the claims read *)

RECURSIVE SumOver(_, _)
SumOver(f, S) ==
  IF S = {} THEN 0
  ELSE LET x == CHOOSE y \in S : TRUE IN f[x] + SumOver(f, S \ {x})

\* the sum of all cells of a marginal
MarginalSum(m) == SumOver(m.n, DOMAIN m.n)

\* the last call was generate_marginal_by_config and it returned
Tabulated == ret.op = "generate_marginal_by_config" /\ ret.exc = ""

\* the table, the request and the result of that call
TabRecords == IF ret.args[1] = "public" THEN public_data ELSE private_data
TabRequest == ret.args[2]
TabSets == ret.value[1].marginal_sets

StrictlyAscending(seq) == \A i \in 1..(Len(seq) - 1) : seq[i] < seq[i + 1]

\* C1: the cells of every marginal generate_marginal_by_config returns sum to
\* the number of rows of the table it was computed from.
C1_MassConservation ==
  Tabulated =>
    \A key \in DOMAIN TabSets : \A fs \in DOMAIN TabSets[key] :
      MarginalSum(TabSets[key][fs]) = Len(TabRecords.rows)

\* C2: a one-way marginal has exactly one entry per code of the attribute's
\* codomain (encode_schema), in ascending code order, a two-way marginal one
\* cell per pair of the cross-product of both codomains, and every entry is
\* the number of rows holding that code or pair: 0 when it is not observed.
C2_MarginalDensity ==
  Tabulated =>
    \A i \in 1..Len(TabRequest) :
      LET a == TabRequest[i].attributes
          m == TabSets[TabRequest[i].key][Range(a)]
      IN /\ m.index = encode_schema[a[1]]
         /\ StrictlyAscending(m.index)
         /\ IF Len(a) = 1
            THEN /\ DOMAIN m.n = Range(encode_schema[a[1]])
                 /\ \A c \in DOMAIN m.n :
                      m.n[c] = Cardinality({k \in 1..Len(TabRecords.rows) :
                                 TabRecords.rows[k][a[1]] = V(c)})
            ELSE /\ m.columns = encode_schema[a[2]]
                 /\ StrictlyAscending(m.columns)
                 /\ DOMAIN m.n =
                      Range(encode_schema[a[1]]) \X Range(encode_schema[a[2]])
                 /\ \A p \in DOMAIN m.n :
                      m.n[p] = Cardinality({k \in 1..Len(TabRecords.rows) :
                                 /\ TabRecords.rows[k][a[1]] = V(p[1])
                                 /\ TabRecords.rows[k][a[2]] = V(p[2])})

\* a one-way marginal over PUMA with an observed code and a code of the
\* domain that no row holds, and a two-way marginal with an empty cell
C2_Witness_OneWay ==
  /\ Tabulated
  /\ TabRequest[1].attributes = <<"PUMA">>
  /\ LET m == TabSets["one"][{"PUMA"}]
     IN (\E c \in DOMAIN m.n : m.n[c] = 0) /\ (\E c \in DOMAIN m.n : m.n[c] = 2)

\* the last call was load_data and it encoded the private table (cache miss)
EncodedPrivate == ret.op = "load_data" /\ ret.path.priv = "miss"

\* C3: for a BinSpec (s, t, step) a value below s gets code 0, a value of at
\* least t the last code, and a value v of [s, t) code 1 + floor((v - s) / step).
C3_BinningCoverage ==
  EncodedPrivate =>
    LET sp == config_file.numerical_binning[1].spec_list
        v == csv_files.priv.rows[1]["AGE"]
        code == private_data.rows[1]["AGE"]
        last == Len(encode_schema["AGE"]) - 1
    IN ~IsNaN(v) =>
         code = V(IF v[1] < sp[1] THEN 0
                  ELSE IF v[1] >= sp[2] THEN last
                  ELSE 1 + ((v[1] - sp[1]) \div sp[3]))

\* the AGE marginal of the scenario, once it is tabulated
AgeMarginal == TabSets["age"][{"AGE"}]

\* the rows of the raw private table whose AGE is not missing
AgePresent ==
  {k \in 1..Len(csv_files.priv.rows) : ~IsNaN(csv_files.priv.rows[k]["AGE"])}

\* C4 as stated: with AGE binned by (0, 90, 10), AGE = 34 is encoded to code 3,
\* the binned attribute has 11 codes, and the one-way marginal over AGE of the
\* 100-row table has 11 entries and sums to 100.
C4_Scenario ==
  /\ EncodedPrivate =>
       /\ \A k \in 1..Len(csv_files.priv.rows) :
            csv_files.priv.rows[k]["AGE"] = V(34)
              => private_data.rows[k]["AGE"] = V(3)
       /\ Len(encode_schema["AGE"]) = 11
  /\ Tabulated =>
       /\ Cardinality(DOMAIN AgeMarginal.n) = 11
       /\ MarginalSum(AgeMarginal) = 100

\* C4 amended: AGE = 34 is encoded to code 4, the binned attribute has 10
\* codes (8 interior bins and 2 unbounded end bins), and the one-way marginal
\* over AGE has 10 entries and sums to the number of rows whose AGE is not
\* missing (all the rows of the table when no AGE is missing).
C4_ScenarioAmended ==
  /\ EncodedPrivate =>
       /\ \A k \in 1..Len(csv_files.priv.rows) :
            csv_files.priv.rows[k]["AGE"] = V(34)
              => private_data.rows[k]["AGE"] = V(4)
       /\ encode_schema["AGE"] = <<0, 1, 2, 3, 4, 5, 6, 7, 8, 9>>
  /\ Tabulated =>
       /\ Len(AgeMarginal.index) = 10
       /\ Cardinality(DOMAIN AgeMarginal.n) = 10
       /\ MarginalSum(AgeMarginal) = Cardinality(AgePresent)
       /\ AgePresent = 1..Len(csv_files.priv.rows)
            => MarginalSum(AgeMarginal) = Len(TabRecords.rows)

\* the marginal of a table in which every AGE is present and 34 occurs
C4_Witness ==
  /\ Tabulated
  /\ \E k \in 1..Len(csv_files.priv.rows) : csv_files.priv.rows[k]["AGE"] = V(34)
  /\ AgeMarginal.n[4] > 0
  /\ MarginalSum(AgeMarginal) = Len(csv_files.priv.rows)

\* the rows of the raw private table whose source tuple is absent from the
\* declared combinations of the grouping
UnknownCombinations ==
  LET g == config_file.grouping_attributes[1]
  IN {k \in 1..Len(csv_files.priv.rows) :
        RowTuple(csv_files.priv.rows[k], g.attributes) \notin Range(g.combinations)}

\* C5: when a row's tuple of source values is absent from the declared
\* combinations, grouping fails with UnknownCombinationError; it never
\* completes with that row mapped to a null code.
C5_GroupingTotality ==
  (EncodedPrivate /\ UnknownCombinations # {}) =>
    /\ ret.exc = "UnknownCombinationError"
    /\ \A k \in UnknownCombinations : ~IsNaN(private_data.rows[k]["DEMO"])

\* the columns encode_remain encodes
RemainAttrs ==
  {a \in Range(private_data.columns) : a \notin EncodedAttr(config_file)}

\* C6: encode_remain gives each raw value the code of its position in the
\* declared domain and fails with SchemaError when a raw value is absent from
\* it; it never completes with such a value mapped to a null code.
C6_RemainderEncoding ==
  EncodedPrivate =>
    \A a \in RemainAttrs : \A k \in 1..Len(csv_files.priv.rows) :
      LET v == csv_files.priv.rows[k][a]
          c == private_data.rows[k][a]
          domain == config_file.schema[a]
      IN IF v \in Range(domain)
         THEN ~IsNaN(c) /\ domain[c[1] + 1] = v
         ELSE ret.exc = "SchemaError" /\ ~IsNaN(c)

\* C7: after encoding, DecodeMap[attr][EncodeMap[attr][v]] = v for every key v
\* of every attribute's encode map, and the codes of the attribute are the
\* contiguous range 0..len(domain)-1.
C7_EncodeDecodeInvariant ==
  (ret.op = "load_data" /\ (ret.path.priv = "miss" \/ ret.path.pub = "miss")) =>
    \A a \in DOMAIN encode_mapping :
      /\ \A v \in DOMAIN encode_mapping[a] :
           /\ encode_mapping[a][v] + 1 \in DOMAIN decode_mapping[a]
           /\ decode_mapping[a][encode_mapping[a][v] + 1] = v
      /\ {encode_mapping[a][v] : v \in DOMAIN encode_mapping[a]}
           = 0..(Len(decode_mapping[a]) - 1)

Wildcards == {"priv_all_one_way", "priv_all_two_way"}

\* the entries of a request that name three or more attributes
Oversized(request) ==
  {i \in 1..Len(request) :
     request[i].key \notin Wildcards /\ Len(request[i].attributes) >= 3}

\* C8: generate_marginal_by_config raises its arity error (NotImplementedError
\* in the code) when the loop reaches an explicit entry of three or more
\* attributes, and a call on a request holding such an entry returns no
\* marginal set and no budget map at all.  Only a wildcard entry placed before
\* it that cannot list the attributes (no public table) raises first.
C8_ArityRejection ==
  (ret.op = "generate_marginal_by_config" /\ Oversized(ret.args[2]) # {}) =>
    /\ ret.value = <<>>
    /\ \/ ret.exc = "NotImplementedError"
       \/ /\ ret.exc = "AttributeError"
          /\ public_data.none
          /\ \E i \in 1..Len(ret.args[2]) :
               /\ ret.args[2][i].key \in Wildcards
               /\ \A j \in Oversized(ret.args[2]) : i < j

\* the offending entry comes after an entry that was tabulated
C8_Witness ==
  /\ ret.op = "generate_marginal_by_config"
  /\ Len(ret.args[2]) = 2
  /\ ret.args[2][1].key = "demo_puma"
  /\ Oversized(ret.args[2]) = {2}
  /\ ret.exc = "NotImplementedError"
  /\ ret.value = <<>>

\* C9: the marginal sets of the two wildcard requests hold no marginal whose
\* attribute set includes PUMA or YEAR.
C9_WildcardExclusion ==
  Tabulated =>
    \A key \in DOMAIN TabSets \cap Wildcards : \A fs \in DOMAIN TabSets[key] :
      "PUMA" \notin fs /\ "YEAR" \notin fs

\* both wildcards answered on a table that has the columns PUMA and YEAR
C9_Witness ==
  /\ Tabulated
  /\ {"PUMA", "YEAR"} \subseteq Range(TabRecords.columns)
  /\ DOMAIN TabSets = Wildcards
  /\ DOMAIN TabSets["priv_all_one_way"] = {{"AGE"}, {"DEMO"}}
  /\ DOMAIN TabSets["priv_all_two_way"] = {{"AGE", "DEMO"}}

\* C10: on a hit the cached value is what the call leaves or returns; on a miss
\* the compute path runs to completion and its result is stored under the
\* cache's file name, for load_data and for generate_all_pub_marginals on a
\* loader that holds a public table.
C10_CacheProtocol ==
  /\ (ret.op = "load_data" /\ ret.path.priv = "hit") =>
       /\ private_data = pickle_files[PrivPickle(config_file)].data
       /\ encode_mapping = pickle_files[PrivPickle(config_file)].enc
  /\ (ret.op = "load_data" /\ ret.path.priv = "miss") =>
       /\ ret.exc = ""
       /\ PrivPickle(config_file) \in DOMAIN pickle_files
       /\ pickle_files[PrivPickle(config_file)]
            = [data |-> private_data, enc |-> encode_mapping]
  /\ (ret.op = "load_data" /\ ret.path.pub = "hit") =>
       public_data = pickle_files[PubPickle(config_file)].data
  /\ (ret.op = "load_data" /\ ret.path.pub = "miss") =>
       /\ ret.exc = ""
       /\ PubPickle(config_file) \in DOMAIN pickle_files
       /\ pickle_files[PubPickle(config_file)].data = public_data
  /\ (ret.op = "generate_all_pub_marginals" /\ ret.path.marg = "hit") =>
       /\ ret.exc = ""
       /\ ret.value = <<pickle_files[MargPickle(config_file)]>>
  /\ (/\ ret.op = "generate_all_pub_marginals"
      /\ ret.path.marg = "miss"
      /\ ~public_data.none) =>
       /\ ret.exc = ""
       /\ MargPickle(config_file) \in DOMAIN pickle_files
       /\ ret.value = <<pickle_files[MargPickle(config_file)]>>

\* the table the five stages make of the raw private table under the
\* directives data.yaml holds now
EncodedNow ==
  Preprocess(config_file, config_file.schema,
             csv_files[config_file.priv_dataset_path], EmptyDict, EmptyDict).data

\* C11: the cache key covers the dataset path and the config directives, so a
\* load_data run never gets as a hit an entry stored by a run whose directives
\* differ: while the raw table and the schema stay, the table a hit hands to
\* the loader is the one the current directives produce.
C11_CacheKeyIdentity ==
  (ret.op = "load_data" /\ ret.path.priv = "hit") => private_data = EncodedNow

\* the codes of an attribute's encode map
Codes(attr) == {encode_mapping[attr][k] : k \in DOMAIN encode_mapping[attr]}

\* the encoded table has one row per record of the raw table and none of the
\* columns the stages drop
ShapeKept ==
  /\ Len(private_data.rows) = Len(csv_files[config_file.priv_dataset_path].rows)
  /\ config_file.identifier \notin Range(private_data.columns)
  /\ \A a \in Range(config_file.determined_attributes) :
       a \notin Range(private_data.columns)
  /\ \A i \in 1..Len(config_file.grouping_attributes) :
       \A a \in Range(config_file.grouping_attributes[i].attributes) :
         a \notin Range(private_data.columns)

\* C12: after the five stages the table has exactly one row per input record,
\* no identifier column, no determined-attribute column, no grouping source
\* column, and every cell of every remaining column is an integer code of its
\* attribute's encode map.
C12_EncodedShape ==
  EncodedPrivate =>
    /\ ShapeKept
    /\ \A a \in Range(private_data.columns) :
         /\ a \in DOMAIN encode_mapping
         /\ \A k \in 1..Len(private_data.rows) :
              private_data.rows[k][a] \in {V(c) : c \in Codes(a)}

\* the maps load_data computes from the raw private table on a cache miss in
\* a new loader
ComputedMaps ==
  Preprocess(config_file, config_file.schema,
             csv_files[config_file.priv_dataset_path], EmptyDict, EmptyDict)

\* C13: for the same raw private table and the same config, a load_data that
\* reads the encoded dataset back on a cache hit leaves the loader with the
\* same EncodeMap and the same DecodeMap, for every attribute, as the
\* load_data that computes it on a cache miss.
C13_CacheTransparency ==
  (ret.op = "load_data" /\ ret.path.priv = "hit") =>
    /\ encode_mapping = ComputedMaps.enc
    /\ decode_mapping = ComputedMaps.dec

\* the attributes of the encoded private table other than PUMA and YEAR
WildcardAttrs == Range(private_data.columns) \ {"PUMA", "YEAR"}

\* the last call was generate_marginal_by_config on the private table of a
\* loader that only ran load_data with its defaults (no public table), with a
\* request of wildcard entries and explicit entries of at most two attributes
DefaultWildcardCall ==
  /\ ret.op = "generate_marginal_by_config"
  /\ ret.args[1] = "private"
  /\ public_data.none
  /\ Oversized(ret.args[2]) = {}
  /\ \E i \in 1..Len(ret.args[2]) : ret.args[2][i].key \in Wildcards

\* C14: after load_data with its default arguments a 'priv_all_one_way'
\* request on the encoded private table yields exactly one marginal for each
\* attribute of that table other than PUMA and YEAR, a 'priv_all_two_way'
\* request exactly one for each unordered pair of distinct such attributes,
\* each keyed by the set of its attribute names.
C14_WildcardCompleteness ==
  DefaultWildcardCall =>
    /\ ret.exc = ""
    /\ "priv_all_one_way" \in DOMAIN TabSets =>
         DOMAIN TabSets["priv_all_one_way"] = {{a} : a \in WildcardAttrs}
    /\ "priv_all_two_way" \in DOMAIN TabSets =>
         DOMAIN TabSets["priv_all_two_way"] =
           {{a, b} : a, b \in WildcardAttrs} \ {{a} : a \in WildcardAttrs}

====
